---- MODULE Spec2Model ----
(***************************************************************************)
(* Model of mock-money-mines (src/app.js): the provably-fair engine        *)
(* (commitment, HMAC keystream, Fisher-Yates shuffle, payout model) and    *)
(* the event handlers that drive it.                                       *)
(*                                                                         *)
(* JavaScript is single threaded: a handler runs to completion unless it   *)
(* awaits a WebCrypto promise (crypto.subtle.digest / importKey / sign).   *)
(* Those promises settle in a later task, so other user events can run     *)
(* while an async handler is suspended there.  An await of an already      *)
(* settled promise only yields to the microtask queue, where no user event *)
(* can run, so it is not a suspension point of the model.  importKey and   *)
(* sign of one hmacSHA256Hex call read no program state in between and are *)
(* one suspension.                                                         *)
(*                                                                         *)
(* Encodings.  Strings the program only stores and compares are integers:  *)
(* a hex seed is its id, null is Null, the placeholder text is Dash, the   *)
(* empty string is EmptyText.  Money is an exact rational <<num, den>> of  *)
(* dollars (a double in the code); the bets typed are whole dollars, which *)
(* toFixed(2) leaves as they are.  A percentage is kept in tenths.         *)
(* Not modelled: styling, aria labels, focus handling, the multiplier and  *)
(* cash-out value displays, and the localStorage copy of the balance.      *)
(***************************************************************************)
EXTENDS Integers, Sequences, FiniteSets, TLC

\* ---------------------------------------------------------------- bounds
\* tiles 0..MaxClickTile are the ones the player clicks
MaxClickTile == 1
\* at most MaxInFlight async handler invocations are suspended at once
MaxInFlight == 2
\* the session derives at most MaxNonce rounds
MaxNonce == 2
\* the floats fed to a shuffle on its own repeat with this period
KsPeriod == 3
\* payoutMultiplier is studied for up to MaxPicks safe picks
MaxPicks == 26
\* a keystream is studied for the server seeds 1..MaxKsSeed
MaxKsSeed == 4

\* ------------------------------------------------------ program constants
BoardSize == 25
BlockBytes == 32
\* the balance loadBalance finds in localStorage at startup ("1.00")
StoredBalance == 1
DefaultMines == 3
DefaultEdge == 30
DefaultBet == 1
MinMines == 1
MaxMines == 24
MaxEdgeInput == 100
MaxEdge == 990

Null == 0
Dash == 0 - 1
EmptyText == 0 - 2
NaNInput == 0 - 7777

\* ------------------------------------------------------ exact arithmetic
RECURSIVE GCD(_, _)
GCD(a, b) == IF b = 0 THEN a ELSE GCD(b, a % b)

Abs(x) == IF x < 0 THEN 0 - x ELSE x

\* a rational in lowest terms with a positive denominator; <<1, 0>> is +Infinity
Rat(n, d) ==
    IF d = 0 THEN <<1, 0>>
    ELSE LET g == GCD(Abs(n), Abs(d))
             s == IF d < 0 THEN 0 - 1 ELSE 1
         IN  <<s * (n \div g), s * (d \div g)>>

RatMul(p, q) ==
    LET g1 == GCD(Abs(p[1]), Abs(q[2]))
        g2 == GCD(Abs(q[1]), Abs(p[2]))
    IN  Rat((p[1] \div g1) * (q[1] \div g2), (p[2] \div g2) * (q[2] \div g1))

RatAdd(p, q) ==
    LET g == GCD(p[2], q[2])
    IN  Rat(p[1] * (q[2] \div g) + q[1] * (p[2] \div g), (p[2] \div g) * q[2])

RatNeg(p) == <<0 - p[1], p[2]>>

RatSub(p, q) == RatAdd(p, RatNeg(q))

RatLess(p, q) == p[1] * q[2] < q[1] * p[2]

RatLeq(p, q) == p[1] * q[2] <= q[1] * p[2]

IsFinite(p) == p[2] # 0

Infinity == <<1, 0>>

Min2(a, b) == IF a < b THEN a ELSE b

Max2(a, b) == IF a > b THEN a ELSE b

\* ------------------------------------------------------ WebCrypto wrappers
\* SHA-256 of the hex string of a seed: an injective map into digests, which
\* are disjoint from seeds (collision resistance is assumed of the library).
sha256Hex(input) == 1000 + 7 * input

\* HMAC-SHA-256(key, "clientSeed:nonce:counter"): a fixed pseudo-random block
\* of BlockBytes bytes per (key, message).  A null key is encoded by
\* TextEncoder as the text "null", which is a key like any other (id Null).
HmacByte(keyRaw, msg, k) ==
    LET h == 17 + 131 * keyRaw + 61 * msg[1] + 89 * msg[2] + 53 * msg[3]
    IN  ((h + 29 * k) * (h + 7 * k + 3) + 113 * k * k + 41 * h) % 256

hmacSHA256Hex(keyRaw, msg) == [k \in 1..BlockBytes |-> HmacByte(keyRaw, msg, k)]

\* ------------------------------------------------- keystream and shuffle
\* Keystream(serverSeed, clientSeed, nonce): the closure's captured values,
\* its block counter and its unread bytes
Keystream(seed, cSeed, n) ==
    [serverSeed |-> seed, clientSeed |-> cSeed, nonce |-> n,
     counter |-> 0, buffer |-> <<>>]

\* (a plausible slip: counter read without the ++ of line 51)
RefillIssuedNoIncrement(ks) == ks

\* refill(), up to the await: the message is built from the counter, which is
\* then incremented
RefillMsg(ks) == <<ks.clientSeed, ks.nonce, ks.counter>>

RefillIssued(ks) == [ks EXCEPT !.counter = ks.counter + 1]

\* refill(), after the await: the block replaces the buffer
RefillDone(ks, block) == [ks EXCEPT !.buffer = block]

\* floor(r * m) for r = getUint32(b1 b2 b3 b4, big endian) / 2^32 and
\* 1 <= m <= BoardSize.  r and r * m are exact in a double (under 2^37), so
\* the result is floor(val * m / 2^32), computed here without leaving 31 bits.
FloorMul(b, m) ==
    LET rest == b[2] * 65536 + b[3] * 256 + b[4]
    IN  (b[1] * m + ((rest * m) \div 16777216)) \div 256

\* nextFloat() with at least 4 unread bytes: the float (as its 4 bytes)
FloatOf(buffer) == SubSeq(buffer, 1, 4)

\* buffer.slice(4)
Slice4(buffer) == SubSeq(buffer, 5, Len(buffer))

\* [arr[i], arr[j]] = [arr[j], arr[i]] on 0-based positions
Swap(arr, i, j) == [arr EXCEPT ![i + 1] = arr[j + 1], ![j + 1] = arr[i + 1]]

\* Array.from({length: n}, (_, i) => i)
Identity(n) == [k \in 1..n |-> k - 1]

\* (a plausible slip: arr[i] = arr[j] instead of the swap)
ShuffleStepOverwrite(arr, i, f) == [arr EXCEPT ![i + 1] = arr[FloorMul(f, i + 1) + 1]]

\* one iteration of the Fisher-Yates loop at position i with float f
ShuffleStep(arr, i, f) == Swap(arr, i, FloorMul(f, i + 1))

\* the loop of shuffleDeterministic from position i, run until it returns
\* (i = 0) or nextFloat has to refill (fewer than 4 unread bytes)
RECURSIVE ShuffleRun(_, _, _)
ShuffleRun(arr, i, buffer) ==
    IF i <= 0 \/ Len(buffer) < 4
    THEN [arr |-> arr, i |-> i, buffer |-> buffer]
    ELSE ShuffleRun(ShuffleStep(arr, i, FloatOf(buffer)), i - 1, Slice4(buffer))

\* new Set(order.slice(0, count))
MinesOf(order, count) == {order[k] : k \in 1..Min2(count, Len(order))}

\* the whole derivation, run without suspension: what an independent
\* verifier computes from (serverSeed, clientSeed, nonce)
RECURSIVE DeriveFrom(_, _, _)
DeriveFrom(ks, arr, i) ==
    IF i <= 0 THEN arr
    ELSE LET ks1 == RefillIssued(ks)
             run == ShuffleRun(arr, i, hmacSHA256Hex(ks.serverSeed, RefillMsg(ks)))
         IN  DeriveFrom(ks1, run.arr, run.i)

DeriveOrder(seed, cSeed, n) ==
    DeriveFrom(Keystream(seed, cSeed, n), Identity(BoardSize), BoardSize - 1)

\* ------------------------------------------------ probability / multiplier
RECURSIVE ProbLoop(_, _, _, _, _)
ProbLoop(i, r, mines, total, prob) ==
    IF i >= r THEN prob
    ELSE IF (total - mines) - i <= 0 THEN <<0, 1>>
    ELSE ProbLoop(i + 1, r, mines, total,
                  RatMul(prob, Rat((total - mines) - i, total - i)))

\* (a plausible slip: the loop of line 81 started at i = 1)
probabilitySafePicksFromOne(r, mines) ==
    IF r <= 0 THEN <<1, 1>> ELSE ProbLoop(1, r, mines, BoardSize, <<1, 1>>)

probabilitySafePicks(r, mines) ==
    IF r <= 0 THEN <<1, 1>> ELSE ProbLoop(0, r, mines, BoardSize, <<1, 1>>)

\* houseEdgePct is in tenths of a percent: edge = houseEdgePct / 100 is e10 / 1000
payoutMultiplier(r, mines, e10) ==
    IF r <= 0 THEN <<1, 1>>
    ELSE LET prob == probabilitySafePicks(r, mines)
         IN  IF RatLeq(prob, <<0, 1>>) THEN Infinity
             ELSE LET edge == Max2(0, Min2(MaxEdge, e10))
                  IN  RatMul(Rat(1000 - edge, 1000), <<prob[2], prob[1]>>)

\* -------------------------------------------------------------- state
VARIABLES
    balance,              \* let balance (exact rational, dollars)
    roundActive,          \* let roundActive
    currentBet,           \* let currentBet (dollars)
    minesCount,           \* let minesCount
    houseEdgePct,         \* let houseEdgePct (tenths of a percent)
    serverSeed,           \* let serverSeed (Null or a seed)
    serverSeedHash,       \* let serverSeedHash (Null or a digest)
    clientSeed,           \* let clientSeed
    nonce,                \* let nonce
    minesSet,             \* let minesSet
    revealed,             \* let revealed
    safeReveals,          \* let safeReveals
    betEl,                \* betEl.value (dollars)
    minesEl,              \* minesEl.value
    edgeEl,               \* edgeEl.value (tenths)
    serverSeedEl,         \* serverSeedEl.textContent
    serverHashEl,         \* serverHashEl.textContent
    clientSeedShowEl,     \* clientSeedShowEl.textContent
    nonceShowEl,          \* nonceShowEl.textContent
    badge,                \* badgeEl.textContent
    disabledTiles,        \* the tiles whose button is disabled
    cashOutBtnDisabled,   \* cashOutBtn.disabled
    verifyBtnDisabled,    \* verifyBtn.disabled
    nextRoundBtnDisabled, \* nextRoundBtn.disabled
    calls,                \* the async invocations suspended at a WebCrypto await
    drawn,                \* how many server seeds randomHex(32) has returned
    alertMsg,             \* the alert() raised by the handler step just taken, or "none"
    round,                \* history: what the round in force was started with
    sh,                   \* a shuffleDeterministic call on a given float source
    pay,                  \* a payoutMultiplier call on given arguments
    kd                    \* a shuffleDeterministic call on a keystream of its own

gameVars == <<balance, roundActive, currentBet, minesCount, houseEdgePct,
              serverSeed, serverSeedHash, clientSeed, nonce, minesSet,
              revealed, safeReveals>>

inputVars == <<betEl, minesEl, edgeEl>>

showVars == <<serverSeedEl, serverHashEl, clientSeedShowEl, nonceShowEl>>

btnVars == <<cashOutBtnDisabled, verifyBtnDisabled, nextRoundBtnDisabled>>

progVars == <<gameVars, inputVars, showVars, badge, disabledTiles, btnVars,
              calls, drawn, round>>

\* the calls studied on their own
harnessVars == <<sh, pay, kd>>

vars == <<progVars, alertMsg, harnessVars>>

Tiles == 0..(BoardSize - 1)

\* the tiles the player clicks
ClickTiles == 0..MaxClickTile

\* randomHex(32): a value the random source has not returned before (two
\* draws of 256 random bits do not collide)
randomHex32 == drawn + 1

\* randomHex(16), likewise, and the text the player may type as client seed
RandomClientBase == 30
randomHex16 == RandomClientBase + drawn
TypedClientSeed == 14

\* clientSeedEl.value.trim() at the click: empty, or the typed text
ClientSeedInputs == {EmptyText, TypedClientSeed}

\* values typed into the bet, mines and edge fields (NaNInput: not a number)
TypedBets == {600}
TypedMines == {30}
TypedEdges == {NaNInput}

\* el.textContent = v: null becomes the empty string
Text(v) == IF v = Null THEN EmptyText ELSE v

NoShuffle == [floats |-> <<>>, arr |-> <<>>, i |-> 0, used |-> 0]

\* no keystream derivation under study
NoKd == [ks |-> Keystream(Null, Null, 0), arr |-> <<>>, i |-> 0, msgs |-> <<>>,
         floats |-> 0]

\* no payoutMultiplier call under study
NoPay == [r |-> 0, mines |-> 0, edge |-> 0, prob |-> <<1, 1>>, mult |-> <<1, 1>>,
          prev |-> <<1, 1>>]

NoRound == [key |-> Null, clientSeed |-> Null, nonce |-> 0, shown |-> Dash,
            bet |-> 0, mines |-> 0, edge |-> 0]

\* ------------------------------------------------------ updateStatusUI
\* updateStatusUI() in a state with the given values: the three buttons
StatusUI(active, safe, mines, edge, seed, hash, seedText) ==
    /\ cashOutBtnDisabled' =
         ~(active /\ safe > 0 /\ IsFinite(payoutMultiplier(safe, mines, edge)))
    /\ verifyBtnDisabled' =
         ~(seed # Null /\ hash # Null /\ ~active /\ seedText # Dash)
    /\ nextRoundBtnDisabled' = active

\* updateStatusUI() as the last call of a handler step
updateStatusUI ==
    StatusUI(roundActive', safeReveals', minesCount', houseEdgePct', serverSeed',
             serverSeedHash', serverSeedEl')

\* ---------------------------------------------------------- clampInputs
ClampBet(raw) == IF raw = NaNInput \/ raw <= 0 THEN DefaultBet ELSE raw

ClampMines(raw) ==
    Max2(MinMines, Min2(MaxMines, IF raw = NaNInput THEN DefaultMines ELSE raw))

ClampEdge(raw) ==
    Max2(0, Min2(MaxEdgeInput, IF raw = NaNInput THEN DefaultEdge ELSE raw))

\* clampInputs() on the field values given, without its final updateStatusUI
clampFields(b, m, e) ==
    /\ betEl' = ClampBet(b)
    /\ minesEl' = ClampMines(m)
    /\ minesCount' = ClampMines(m)
    /\ edgeEl' = ClampEdge(e)
    /\ houseEdgePct' = ClampEdge(e)

\* the state after the script has loaded (lines 120-135, 428-431)
InitGame ==
    /\ balance = <<StoredBalance, 1>>
    /\ roundActive = FALSE
    /\ currentBet = 0
    /\ minesCount = DefaultMines
    /\ houseEdgePct = DefaultEdge
    /\ serverSeed = Null
    /\ serverSeedHash = Null
    /\ clientSeed = Null
    /\ nonce = 0
    /\ minesSet = {}
    /\ revealed = {}
    /\ safeReveals = 0
    /\ betEl = DefaultBet
    /\ minesEl = DefaultMines
    /\ edgeEl = DefaultEdge
    /\ serverSeedEl = Dash
    /\ serverHashEl = Dash
    /\ clientSeedShowEl = Dash
    /\ nonceShowEl = Dash
    /\ badge = "Idle"
    /\ disabledTiles = {}
    /\ cashOutBtnDisabled = TRUE
    /\ verifyBtnDisabled = TRUE
    /\ nextRoundBtnDisabled = FALSE
    /\ calls = <<>>
    /\ drawn = 0
    /\ alertMsg = "none"
    /\ round = NoRound

Init == InitGame /\ sh = NoShuffle /\ pay = NoPay /\ kd = NoKd

\* ------------------------------------------- input change / blur handlers
InputChange ==
    /\ \E f \in {"bet", "mines", "edge"} :
         \E raw \in (CASE f = "bet" -> TypedBets
                       [] f = "mines" -> TypedMines
                       [] OTHER -> TypedEdges) :
            /\ clampFields(IF f = "bet" THEN raw ELSE betEl,
                           IF f = "mines" THEN raw ELSE minesEl,
                           IF f = "edge" THEN raw ELSE edgeEl)
            /\ alertMsg' = "none"
    /\ UNCHANGED <<balance, roundActive, currentBet, serverSeed, serverSeedHash,
                   clientSeed, nonce, minesSet, revealed, safeReveals>>
    /\ UNCHANGED <<showVars, badge, disabledTiles, calls, drawn, round, harnessVars>>
    /\ updateStatusUI

\* ------------------------------------------------------------ startRound
NoKeystream == Keystream(Null, Null, 0)

Call(fn, pc, bet, hashArg, ks, msg, arr, i) ==
    [fn |-> fn, pc |-> pc, bet |-> bet, hashArg |-> hashArg, ks |-> ks,
     msg |-> msg, arr |-> arr, i |-> i]

Remove(q, k) == SubSeq(q, 1, k - 1) \o SubSeq(q, k + 1, Len(q))

\* how many suspended startRound invocations have not yet incremented nonce
PendingNonces == Cardinality({k \in 1..Len(calls) :
                                 calls[k].fn = "startRound" /\ calls[k].pc = "sha"})

\* (a plausible slip: the client seed of line 254 assigned before the
\* balance check of line 248)
InsufficientBalanceSeedFirst ==
    /\ alertMsg' = "Insufficient balance"
    /\ clientSeed' = randomHex16
    /\ UNCHANGED <<serverSeed, calls, drawn>>

\* lines 248-251: the bet exceeds the balance; alert and return
InsufficientBalance ==
    /\ alertMsg' = "Insufficient balance"
    /\ UNCHANGED <<serverSeed, clientSeed, calls, drawn>>

\* lines 244-256: the click, up to the await of sha256Hex(serverSeed)
StartRoundClick ==
    /\ UNCHANGED harnessVars
    /\ IF roundActive
       THEN /\ UNCHANGED progVars
            /\ alertMsg' = "none"
       ELSE /\ clampFields(betEl, minesEl, edgeEl)
            /\ UNCHANGED <<roundActive, currentBet, serverSeedHash, nonce, minesSet,
                           revealed, safeReveals, balance>>
            /\ UNCHANGED <<showVars, badge, disabledTiles, round>>
            \* clampInputs ends with updateStatusUI, before the seeds are drawn
            /\ StatusUI(roundActive, safeReveals, minesCount', houseEdgePct',
                        serverSeed, serverSeedHash, serverSeedEl)
            /\ IF RatLess(balance, <<betEl', 1>>)
               THEN InsufficientBalance
               ELSE /\ Len(calls) < MaxInFlight
                    /\ nonce + PendingNonces < MaxNonce
                    /\ \E typed \in ClientSeedInputs :
                         clientSeed' = (IF typed # EmptyText THEN typed
                                        ELSE randomHex16)
                    /\ serverSeed' = randomHex32
                    /\ drawn' = drawn + 1
                    /\ calls' = Append(calls,
                           Call("startRound", "sha", betEl', randomHex32, NoKeystream,
                                <<>>, <<>>, 0))
                    /\ alertMsg' = "none"

\* (a plausible slip: nonce = nonce || 1, which counts only the first round)
NextNonceFirstOnly == IF nonce = 0 THEN 1 ELSE nonce

\* line 257: (nonce || 0) + 1
NextNonce == nonce + 1

\* lines 256-266: the digest arrives; the invocation runs on to the first
\* refill of its keystream (the await of hmacSHA256Hex)
StartRoundHashed(k) ==
    LET c  == calls[k]
        n  == NextNonce
        ks == Keystream(serverSeed, clientSeed, n)
    IN  /\ c.fn = "startRound" /\ c.pc = "sha"
        /\ serverSeedHash' = sha256Hex(c.hashArg)
        /\ nonce' = n
        /\ clientSeedShowEl' = clientSeed
        /\ nonceShowEl' = n
        /\ serverSeedEl' = Dash
        /\ serverHashEl' = sha256Hex(c.hashArg)
        /\ calls' = [calls EXCEPT ![k] =
                       Call("startRound", "hmac", c.bet, Null, RefillIssued(ks),
                            RefillMsg(ks), Identity(BoardSize), BoardSize - 1)]
        /\ alertMsg' = "none"
        /\ UNCHANGED <<balance, roundActive, currentBet, minesCount, houseEdgePct,
                       serverSeed, clientSeed, minesSet, revealed, safeReveals>>
        /\ UNCHANGED <<inputVars, badge, disabledTiles, btnVars, drawn, round>>

\* (a plausible slip: refill keyed by the global serverSeed, which the
\* parameter of Keystream shadows)
RefillKeyOfGlobal(ks) == serverSeed

\* line 52: the key of the block is the serverSeed the keystream was made with
RefillKey(ks) == ks.serverSeed

\* lines 266-279: a keystream block arrives; the shuffle consumes it and
\* either awaits the next block or returns, and the round goes live
StartRoundBlock(k) ==
    LET c   == calls[k]
        ks  == RefillDone(c.ks, hmacSHA256Hex(RefillKey(c.ks), c.msg))
        run == ShuffleRun(c.arr, c.i, ks.buffer)
        ks1 == [ks EXCEPT !.buffer = run.buffer]
    IN  /\ c.fn = "startRound" /\ c.pc = "hmac"
        /\ IF run.i > 0
           THEN /\ calls' = [calls EXCEPT ![k] =
                               Call("startRound", "hmac", c.bet, Null, RefillIssued(ks1),
                                    RefillMsg(ks1), run.arr, run.i)]
                /\ UNCHANGED <<gameVars, inputVars, showVars, badge, disabledTiles,
                               btnVars, drawn, round>>
                /\ alertMsg' = "none"
           ELSE /\ minesSet' = MinesOf(run.arr, minesCount)
                /\ balance' = RatSub(balance, <<c.bet, 1>>)
                /\ currentBet' = c.bet
                /\ safeReveals' = 0
                /\ revealed' = {}
                /\ roundActive' = TRUE
                /\ badge' = "Live"
                /\ disabledTiles' = {}
                /\ calls' = Remove(calls, k)
                /\ alertMsg' = "none"
                /\ round' = [key |-> ks.serverSeed, clientSeed |-> ks.clientSeed,
                             nonce |-> ks.nonce, shown |-> serverHashEl,
                             bet |-> c.bet, mines |-> minesCount,
                             edge |-> houseEdgePct]
                /\ UNCHANGED <<minesCount, houseEdgePct, serverSeed, serverSeedHash,
                               clientSeed, nonce>>
                /\ UNCHANGED <<inputVars, showVars, drawn>>
                /\ updateStatusUI

\* ----------------------------------------------------------- onTileClick
\* revealAll: every mine and every tile not yet revealed is disabled
revealAll(rev) == disabledTiles \cup minesSet \cup (Tiles \ rev)

\* (a plausible slip: the guard of startRound, line 245, copied to line 322)
TileClickReturnsWhenActive(idx) ==
    roundActive \/ idx \in revealed \/ idx \in disabledTiles

\* (a plausible slip: the roundActive check on line 322 left out)
TileClickReturnsNoActiveCheck(idx) == idx \in revealed \/ idx \in disabledTiles

\* lines 322-325: the early returns of onTileClick
TileClickReturns(idx) ==
    ~roundActive \/ idx \in revealed \/ idx \in disabledTiles

onTileClick(idx) ==
    IF TileClickReturns(idx)
    THEN /\ UNCHANGED progVars
         /\ alertMsg' = "none"
    ELSE IF idx \in minesSet
    THEN /\ revealed' = revealed \cup {idx}
         /\ roundActive' = FALSE
         /\ disabledTiles' = revealAll(revealed \cup {idx}) \cup {idx}
         /\ badge' = "Busted"
         /\ serverSeedEl' = Text(serverSeed)
         /\ alertMsg' = "none"
         /\ UNCHANGED <<balance, currentBet, minesCount, houseEdgePct, serverSeed,
                        serverSeedHash, clientSeed, nonce, minesSet, safeReveals>>
         /\ UNCHANGED <<inputVars, serverHashEl, clientSeedShowEl, nonceShowEl,
                        calls, drawn, round>>
         /\ updateStatusUI
    ELSE /\ revealed' = revealed \cup {idx}
         /\ safeReveals' = safeReveals + 1
         /\ disabledTiles' = disabledTiles \cup {idx}
         /\ alertMsg' = "none"
         /\ UNCHANGED <<balance, roundActive, currentBet, minesCount, houseEdgePct,
                        serverSeed, serverSeedHash, clientSeed, nonce, minesSet>>
         /\ UNCHANGED <<inputVars, showVars, badge, calls, drawn, round>>
         /\ updateStatusUI

TileClick == \E idx \in ClickTiles : onTileClick(idx) /\ UNCHANGED harnessVars

\* ------------------------------------------------------------- doCashOut
\* (the click reaches the handler only while the button is enabled)
doCashOut ==
    LET mult == payoutMultiplier(safeReveals, minesCount, houseEdgePct)
    IN  IF ~roundActive \/ safeReveals <= 0 \/ ~IsFinite(mult)
        THEN /\ UNCHANGED progVars
             /\ alertMsg' = "none"
        ELSE /\ ~cashOutBtnDisabled
             /\ balance' = RatAdd(balance, RatMul(<<currentBet, 1>>, mult))
             /\ roundActive' = FALSE
             /\ badge' = "Cashed out"
             /\ disabledTiles' = revealAll(revealed)
             /\ serverSeedEl' = Text(serverSeed)
             /\ alertMsg' = "none"
             /\ UNCHANGED <<currentBet, minesCount, houseEdgePct, serverSeed,
                            serverSeedHash, clientSeed, nonce, minesSet, revealed,
                            safeReveals>>
             /\ UNCHANGED <<inputVars, serverHashEl, clientSeedShowEl, nonceShowEl,
                            calls, drawn, round>>
             /\ updateStatusUI

\* ------------------------------------------------------ verifyCommitment
\* line 393, up to the await of sha256Hex(serverSeed).  A click reaches the
\* handler only while the button is enabled; an invocation that returns at
\* once changes nothing and is admitted in every state.
VerifyClick ==
    /\ UNCHANGED harnessVars
    /\ IF serverSeed = Null \/ serverSeedHash = Null \/ roundActive
            \/ serverSeedEl = Dash
       THEN UNCHANGED calls
       ELSE /\ ~verifyBtnDisabled
            /\ Len(calls) < MaxInFlight
            /\ calls' = Append(calls,
                   Call("verifyCommitment", "sha", 0, serverSeed, NoKeystream,
                        <<>>, <<>>, 0))
    /\ UNCHANGED <<gameVars, inputVars, showVars, badge, disabledTiles, btnVars,
                   drawn, round>>
    /\ alertMsg' = "none"

\* lines 394-396: the digest arrives and is compared with the stored one
VerifyHashed(k) ==
    LET c == calls[k]
        h == sha256Hex(c.hashArg)
    IN  /\ c.fn = "verifyCommitment" /\ c.pc = "sha"
        /\ calls' = Remove(calls, k)
        /\ alertMsg' = (IF h = serverSeedHash THEN "Verified" ELSE "Mismatch")
        /\ UNCHANGED <<gameVars, inputVars, showVars, badge, disabledTiles,
                       btnVars, drawn, round>>

\* ------------------------------------------------------------- nextRound
\* the button is disabled while a round is live, so no click reaches it then
nextRound ==
    /\ UNCHANGED harnessVars
    /\ ~nextRoundBtnDisabled
    /\ badge' = "Idle"
    /\ serverSeed' = Null
    /\ serverSeedHash' = Null
    /\ serverSeedEl' = Dash
    /\ serverHashEl' = Dash
    /\ safeReveals' = 0
    /\ revealed' = {}
    /\ disabledTiles' = {}
    /\ alertMsg' = "none"
    /\ UNCHANGED <<balance, roundActive, currentBet, minesCount, houseEdgePct,
                   clientSeed, nonce, minesSet>>
    /\ UNCHANGED <<inputVars, clientSeedShowEl, nonceShowEl, calls, drawn, round>>
    /\ updateStatusUI

CashOutClick == doCashOut /\ UNCHANGED harnessVars

\* a suspended invocation resumes when its WebCrypto promise settles
ResumeStartRoundHashed == \E k \in 1..Len(calls) : StartRoundHashed(k) /\ UNCHANGED harnessVars

ResumeStartRoundBlock == \E k \in 1..Len(calls) : StartRoundBlock(k) /\ UNCHANGED harnessVars

ResumeVerifyHashed == \E k \in 1..Len(calls) : VerifyHashed(k) /\ UNCHANGED harnessVars

Next ==
    \/ InputChange
    \/ StartRoundClick
    \/ ResumeStartRoundHashed
    \/ ResumeStartRoundBlock
    \/ TileClick
    \/ CashOutClick
    \/ VerifyClick
    \/ ResumeVerifyHashed
    \/ nextRound

Spec == Init /\ [][Next]_vars

\* ------------------------------------------- shuffleDeterministic, alone
\* shuffleDeterministic(BoardSize, ks) for a keystream that is any source of
\* floats: the floats are drawn from FloatSamples, in a pattern that repeats
\* with period KsPeriod.
FloatSamples == {<<0, 0, 0, 0>>, <<255, 255, 255, 255>>, <<128, 0, 0, 0>>,
                 <<63, 255, 255, 255>>}

InitShuffle ==
    /\ InitGame
    /\ sh \in {[floats |-> fs, arr |-> Identity(BoardSize), i |-> BoardSize - 1,
                used |-> 0] : fs \in [1..KsPeriod -> FloatSamples]}
    /\ pay = NoPay
    /\ kd = NoKd

\* one iteration of the loop: lines 70-72
ShuffleIterate ==
    /\ sh.i > 0
    /\ sh' = [sh EXCEPT
                !.arr = ShuffleStep(sh.arr, sh.i, sh.floats[(sh.used % KsPeriod) + 1]),
                !.i = sh.i - 1,
                !.used = sh.used + 1]
    /\ UNCHANGED <<progVars, alertMsg, pay, kd>>

NextShuffle == ShuffleIterate

SpecShuffle == InitShuffle /\ [][NextShuffle]_vars

\* ------------------------- shuffleDeterministic on a Keystream, alone
\* shuffleDeterministic(25, Keystream(serverSeed, clientSeed, nonce)) for the
\* seeds and nonces below, one nextFloat or refill at a time.  msgs lists the
\* MAC messages sent so far, floats counts the floats returned.
KsSeeds == 1..MaxKsSeed

KsClientSeeds == {TypedClientSeed, RandomClientBase}

KsNonces == 1..MaxNonce

InitKeystream ==
    /\ InitGame
    /\ sh = NoShuffle
    /\ pay = NoPay
    /\ kd \in {[ks |-> Keystream(s, c, n), arr |-> Identity(BoardSize),
                 i |-> BoardSize - 1, msgs |-> <<>>, floats |-> 0] :
                   s \in KsSeeds, c \in KsClientSeeds, n \in KsNonces}

\* lines 56-57, 50-53: nextFloat finds fewer than 4 unread bytes and refills
KsRefill ==
    /\ kd.i > 0
    /\ Len(kd.ks.buffer) < 4
    /\ kd' = [kd EXCEPT
                !.ks = RefillDone(RefillIssued(kd.ks),
                                  hmacSHA256Hex(RefillKey(kd.ks), RefillMsg(kd.ks))),
                !.msgs = Append(kd.msgs, RefillMsg(kd.ks))]
    /\ UNCHANGED <<progVars, alertMsg, sh, pay>>

\* lines 59-62, 71-72: nextFloat returns the next 4 bytes and the loop swaps
KsNextFloat ==
    /\ kd.i > 0
    /\ Len(kd.ks.buffer) >= 4
    /\ kd' = [kd EXCEPT
                !.ks = [kd.ks EXCEPT !.buffer = Slice4(kd.ks.buffer)],
                !.arr = ShuffleStep(kd.arr, kd.i, FloatOf(kd.ks.buffer)),
                !.i = kd.i - 1,
                !.floats = kd.floats + 1]
    /\ UNCHANGED <<progVars, alertMsg, sh, pay>>

NextKeystream == KsRefill \/ KsNextFloat

SpecKeystream == InitKeystream /\ [][NextKeystream]_vars

\* ------------------------------------- the probability / multiplier, alone
\* payoutMultiplier(r, mines, houseEdgePct) and probabilitySafePicks(r, mines)
\* for r = -1, 0, 1, ... MaxPicks, every mine count from 0 to 25 and the
\* house edges below (tenths of a percent; the inputs clamp to 0..100, the
\* function itself to 0..990)
PayMines == 0..BoardSize

PayEdges == {0 - 50, 0, 30, MaxEdgeInput, 2000}

PayCall(r, mines, e10, prev) ==
    [r |-> r, mines |-> mines, edge |-> e10,
     prob |-> probabilitySafePicks(r, mines),
     mult |-> payoutMultiplier(r, mines, e10),
     prev |-> prev]

InitPayout ==
    /\ InitGame
    /\ sh = NoShuffle
    /\ pay \in {PayCall(0 - 1, m, e, <<1, 1>>) : m \in PayMines, e \in PayEdges}
    /\ kd = NoKd

\* the same call with one more safe pick; prev keeps the multiplier before
PayoutNext ==
    /\ pay.r < MaxPicks
    /\ pay' = PayCall(pay.r + 1, pay.mines, pay.edge, pay.mult)
    /\ UNCHANGED <<progVars, alertMsg, sh, kd>>

NextPayout == PayoutNext

SpecPayout == InitPayout /\ [][NextPayout]_vars

\* p <= q on two results of payoutMultiplier (positive, +Infinity on top),
\* decided from the quotient q / p
MultLeq(p, q) ==
    IF ~IsFinite(q) THEN TRUE
    ELSE IF ~IsFinite(p) THEN FALSE
    ELSE LET quot == RatMul(q, <<p[2], p[1]>>) IN quot[1] >= quot[2]

\* ------------------------------------------------------------ the claims
\* C1: whenever a commitment digest is stored, it is the SHA-256 digest of
\* the server seed stored at that moment.
C1_DigestMatchesSeed ==
    serverSeedHash # Null => serverSeedHash = sha256Hex(serverSeed)

\* C2: no verifyCommitment invocation ever reports a mismatch.
C2_VerifyNeverMismatch == alertMsg # "Mismatch"

\* a startRound invocation is suspended at an await
DerivationInFlight == \E k \in 1..Len(calls) : calls[k].fn = "startRound"

\* the round is Active, or settled and not yet cleared by nextRound
RoundInForce == roundActive \/ badge \in {"Busted", "Cashed out"}

\* C3: the hazard set of the round in force is the set an independent
\* verifier derives from the seed, client seed and nonce the program holds
\* and displays.
C3_HazardSetRederivable ==
    RoundInForce =>
        /\ clientSeedShowEl = clientSeed
        /\ nonceShowEl = nonce
        /\ minesSet = MinesOf(DeriveOrder(serverSeed, clientSeed, nonce),
                              Cardinality(minesSet))

\* C4: a tile click that passes the guards of onTileClick never happens while
\* a startRound invocation is suspended.
C4_NoRevealDuringDerivation ==
    [][\A idx \in ClickTiles :
          (~TileClickReturns(idx) /\ onTileClick(idx)) => ~DerivationInFlight]_vars

\* C5: while the round is Active the server seed field shows the placeholder.
C5_SeedHiddenWhileActive == roundActive => serverSeedEl = Dash

\* C6: the secret shown when a round ends is a non-empty seed, its digest is
\* the commitment shown when the round started, and it keyed the derivation
\* of the round's hazard set.
C6_RevealedSeedIsCommitted ==
    [][(roundActive /\ ~roundActive') =>
          /\ serverSeedEl' # EmptyText
          /\ serverSeedEl' # Dash
          /\ sha256Hex(serverSeedEl') = round.shown
          /\ serverSeedEl' = round.key]_vars

\* C7: shuffleDeterministic(25, ks) keeps the array a permutation of 0..24
\* whatever floats the keystream yields, and the first hazardCount elements
\* of its result are hazardCount distinct tiles, for every hazardCount in 1..24.
C7_ShuffleIsPermutation ==
    /\ Len(sh.arr) = BoardSize
    /\ {sh.arr[k] : k \in 1..BoardSize} = Tiles
    /\ sh.i = 0 =>
         \A m \in MinMines..MaxMines :
            /\ Cardinality(MinesOf(sh.arr, m)) = m
            /\ MinesOf(sh.arr, m) \subseteq Tiles

C7_Witness ==
    /\ sh.i = 0
    /\ sh.used = BoardSize - 1
    /\ sh.arr # Identity(BoardSize)
    /\ \E k \in 1..KsPeriod : sh.floats[k] = <<255, 255, 255, 255>>
    /\ \E k \in 1..KsPeriod : sh.floats[k] = <<0, 0, 0, 0>>

\* C8: during an Active round the hazard set is never replaced, and it has
\* minesCount elements.
C8_HazardSetFixed ==
    [][/\ roundActive' => Cardinality(minesSet') = minesCount'
       /\ (roundActive /\ roundActive') => minesSet' = minesSet]_vars

\* C9: an accepted cash-out credits bet * multiplier(r, hazardCount, edge)
\* with the values the round was started with, ends the round as Cashed out
\* and shows the seed.
C9_PayoutOfRoundValues ==
    [][(roundActive /\ badge' = "Cashed out") =>
          /\ balance' = RatAdd(balance,
                 RatMul(<<round.bet, 1>>,
                        payoutMultiplier(safeReveals, Cardinality(minesSet), round.edge)))
          /\ ~roundActive'
          /\ safeReveals >= 1
          /\ serverSeedEl' = Text(serverSeed)]_vars

\* C10: revealing a hazard tile ends the round as Busted without credit, and
\* while no round is Active nothing is revealed or credited and the hazard
\* set stays as it is.
C10_BustIsFinal ==
    [][/\ (roundActive /\ (revealed' \ revealed) \cap minesSet # {}) =>
            (~roundActive' /\ badge' = "Busted" /\ balance' = balance)
       /\ (~roundActive /\ ~roundActive') =>
            /\ balance' = balance
            /\ minesSet' = minesSet
            /\ revealed' \subseteq revealed
            /\ safeReveals' <= safeReveals]_vars

C10_Witness ==
    /\ badge = "Busted" /\ ~roundActive
    /\ revealed \cap minesSet # {}
    /\ safeReveals >= 1
    /\ alertMsg = "none"

\* C11: a startRound rejected for insufficient balance leaves the balance,
\* the round status, the seeds, the digest, the nonce, the hazard set, the
\* revealed set and the safe-reveal count as they were, and leaves no
\* invocation suspended.
C11_InsufficientNoMutation ==
    [][alertMsg' = "Insufficient balance" =>
          /\ RatLess(balance, <<betEl', 1>>)
          /\ UNCHANGED <<balance, roundActive, serverSeed, serverSeedHash, clientSeed,
                         nonce, minesSet, revealed, safeReveals>>
          /\ UNCHANGED <<currentBet, calls, drawn>>]_vars

C11_Witness ==
    /\ alertMsg = "Insufficient balance"
    /\ ~roundActive
    /\ nonce >= 1
    /\ minesSet # {}
    /\ balance = <<0, 1>>
    /\ betEl = DefaultBet

\* a round has been settled and not yet cleared: its seed is on display
RoundSettled == ~roundActive /\ badge \in {"Busted", "Cashed out"}

\* C12: a tile click with no Active round, a cash-out with no Active round
\* or no safe reveal, and a verifyCommitment while the round is Active or
\* with no settled round change nothing, raise no alert and leave no
\* invocation behind that could report a verification result.
C12_IllegalTransitionsAreNoOps ==
    [][/\ \A idx \in ClickTiles :
            (~roundActive /\ onTileClick(idx)) =>
                (UNCHANGED progVars /\ alertMsg' = "none")
       /\ ((~roundActive \/ safeReveals = 0) /\ doCashOut) =>
                (UNCHANGED progVars /\ alertMsg' = "none")
       /\ (~RoundSettled /\ VerifyClick) =>
                (UNCHANGED progVars /\ alertMsg' = "none")]_vars

\* an illegal attempt of each kind is possible and has just been made: no
\* round is Active, a tile of the old hazard set is enabled again, and a
\* seed is held without a settled round
C12_Witness ==
    /\ ~roundActive
    /\ badge = "Idle"
    /\ alertMsg = "none"
    /\ \E idx \in ClickTiles : idx \in minesSet /\ idx \notin disabledTiles
    /\ serverSeed # Null
    /\ nonce >= 1

\* the suspended derivations, and the nonces their keystreams were made with
Deriving(q) == {k \in 1..Len(q) : q[k].fn = "startRound" /\ q[k].pc = "hmac"}

DerivingNonces(q) == {q[k].ks.nonce : k \in Deriving(q)}

\* C13: nonce never decreases; a derivation that starts uses a nonce greater
\* than that of every derivation started before it (suspended, or the round
\* in force); no two derivations, and no two rounds that go live one after
\* the other, share a nonce.
C13_NonceStrictlyIncreasing ==
    [][/\ nonce' >= nonce
       /\ \A n \in DerivingNonces(calls') \ DerivingNonces(calls) :
            /\ n = nonce'
            /\ n > nonce
            /\ n > round.nonce
            /\ \A m \in DerivingNonces(calls) : n > m
       /\ Cardinality(DerivingNonces(calls')) = Cardinality(Deriving(calls'))
       /\ round'.nonce \notin DerivingNonces(calls')
       /\ round'.nonce <= nonce'
       /\ round' # round => round'.nonce # round.nonce]_vars

\* two derivations overlap: the round of nonce 1 is Active and was cleared
\* by no nextRound, the derivation of nonce 2 is suspended
C13_Witness ==
    /\ roundActive
    /\ round.nonce = 1
    /\ nonce = 2
    /\ DerivingNonces(calls) = {2}

\* C14: for 1..24 mines and a house edge in the allowed range 0..10 %, the
\* multiplier for r safe picks is at least the multiplier for r - 1, from
\* r = 1 on.
C14_MultiplierMonotone ==
    (pay.mines \in MinMines..MaxMines /\ pay.edge \in 0..MaxEdgeInput /\ pay.r >= 1)
        => MultLeq(pay.prev, pay.mult)

\* C15: for r >= 0 and 1..24 mines the probability lies in [0, 1] and the
\* multiplier is +Infinity or at least 1, whatever the house edge.
C15_ProbAndMultiplierRange ==
    (pay.mines \in MinMines..MaxMines /\ pay.r >= 0) =>
        /\ pay.prob[1] >= 0
        /\ pay.prob[1] <= pay.prob[2]
        /\ (~IsFinite(pay.mult) \/ pay.mult[1] >= pay.mult[2])

\* the product over i = 0..r-1 of (25 - m - i) / (25 - i)
RECURSIVE SafeProduct(_, _)
SafeProduct(r, m) ==
    IF r <= 0 THEN <<1, 1>>
    ELSE RatMul(SafeProduct(r - 1, m),
                Rat(BoardSize - m - (r - 1), BoardSize - (r - 1)))

\* C16: probabilitySafePicks(r, m) is 1 for r <= 0, 0 for r > 25 - m, and the
\* product of (25 - m - i) / (25 - i) over i = 0..r-1 in between; 22/25 for
\* m = 3, r = 1 and 1/25 for m = 24, r = 1; never negative.
C16_ProbabilityExact ==
    /\ pay.r <= 0 => pay.prob = <<1, 1>>
    /\ pay.r > BoardSize - pay.mines => pay.prob = <<0, 1>>
    /\ (1 <= pay.r /\ pay.r <= BoardSize - pay.mines) =>
           (pay.prob = SafeProduct(pay.r, pay.mines) /\ pay.prob[1] > 0)
    /\ (pay.mines = 3 /\ pay.r = 1) => pay.prob = <<22, 25>>
    /\ (pay.mines = MaxMines /\ pay.r = 1) => pay.prob = <<1, 25>>
    /\ pay.prob[1] >= 0 /\ pay.prob[2] > 0

C16_Witness ==
    /\ pay.mines = 12
    /\ pay.r = BoardSize - 12
    /\ pay.prob = <<1, 5200300>>
    /\ pay.edge = DefaultEdge

\* the permutation a suspended derivation returns when it is resumed to its
\* end: the block it awaits, then the blocks its own keystream asks for
Resumed(c) ==
    LET run == ShuffleRun(c.arr, c.i, hmacSHA256Hex(c.ks.serverSeed, c.msg))
    IN  DeriveFrom(c.ks, run.arr, run.i)

\* C17: a derivation made by the program, however it is interleaved with
\* other derivations and handlers, yields the permutation an independent
\* derivation from the same (serverSeed, clientSeed, nonce) yields.
C17_ShuffleDeterministic ==
    /\ \A k \in Deriving(calls) :
          Resumed(calls[k]) = DeriveOrder(calls[k].ks.serverSeed,
                                          calls[k].ks.clientSeed, calls[k].ks.nonce)
    /\ round # NoRound =>
          minesSet = MinesOf(DeriveOrder(round.key, round.clientSeed, round.nonce),
                             round.mines)

\* two derivations are interleaved, the later one ahead of the earlier one
C17_Witness ==
    /\ Len(calls) = 2
    /\ Deriving(calls) = {1, 2}
    /\ calls[1].ks.counter = 2
    /\ calls[2].ks.counter = 3
    /\ calls[1].ks.nonce < calls[2].ks.nonce

\* floats per MAC block
FloatsPerBlock == BlockBytes \div 4

\* the byte stream of a keystream: the MAC blocks of the messages
\* clientSeed:nonce:0, clientSeed:nonce:1, ... laid end to end
RECURSIVE Stream(_, _, _, _)
Stream(key, cSeed, n, blocks) ==
    IF blocks <= 0 THEN <<>>
    ELSE Stream(key, cSeed, n, blocks - 1)
             \o hmacSHA256Hex(key, <<cSeed, n, blocks - 1>>)

\* the q-th float (q = 1, 2, ...) of a stream: its q-th group of 4 bytes
StreamFloat(stream, q) == SubSeq(stream, 4 * q - 3, 4 * q)

\* the array after the first q Fisher-Yates steps, step i = 25 - q taking
\* the q-th float of the stream
RECURSIVE StreamShuffle(_, _)
StreamShuffle(stream, q) ==
    IF q <= 0 THEN Identity(BoardSize)
    ELSE Swap(StreamShuffle(stream, q - 1), BoardSize - q,
              FloorMul(StreamFloat(stream, q), BoardSize - q + 1))

\* C18: the MAC messages of a keystream carry the counters 0, 1, 2, ... in
\* that order; a block is asked for only with fewer than 4 unread bytes, so
\* every byte of every block is consumed exactly once, 4 per float; Fisher-
\* Yates step i takes the (25 - i)-th float of the stream, read big-endian,
\* with j = floor(f * (i + 1)) in 0..i; the shuffle ends after 24 floats of
\* three blocks.
C18_KeystreamSequential ==
    kd # NoKd =>
        LET ks     == kd.ks
            stream == Stream(ks.serverSeed, ks.clientSeed, ks.nonce, ks.counter)
        IN  /\ Len(kd.msgs) = ks.counter
            /\ \A b \in 1..Len(kd.msgs) :
                  kd.msgs[b] = <<ks.clientSeed, ks.nonce, b - 1>>
            /\ ks.counter <= 3
            /\ 4 * kd.floats + Len(ks.buffer) = BlockBytes * ks.counter
            /\ ks.buffer = SubSeq(stream, 4 * kd.floats + 1, Len(stream))
            /\ kd.floats = (BoardSize - 1) - kd.i
            /\ kd.arr = StreamShuffle(stream, kd.floats)
            /\ \A p \in 1..kd.floats :
                  FloorMul(StreamFloat(stream, p), BoardSize - p + 1)
                      \in 0..(BoardSize - p)
            /\ kd.i = 0 => (kd.floats = 3 * FloatsPerBlock /\ ks.counter = 3)
            /\ \A m \in 1..BoardSize :
                  /\ FloorMul(<<128, 0, 0, 0>>, m) = m \div 2
                  /\ FloorMul(<<0, 0, 0, 128>>, m) = 0
                  /\ FloorMul(<<255, 255, 255, 255>>, m) = m - 1

\* a shuffle has returned, on a stream that moved tiles
C18_Witness ==
    /\ kd.i = 0
    /\ kd.floats = BoardSize - 1
    /\ kd.msgs = <<<<TypedClientSeed, 2, 0>>, <<TypedClientSeed, 2, 1>>,
                   <<TypedClientSeed, 2, 2>>>>
    /\ kd.arr # Identity(BoardSize)
    /\ kd.ks.buffer = <<>>

\* C19: the balance is never negative, and it decreases only in the step in
\* which a round becomes Active, by the bet of that round.
C19_BalanceNonNegative ==
    [][/\ balance'[1] >= 0
       /\ RatLess(balance', balance) =>
            /\ ~roundActive
            /\ roundActive'
            /\ balance' = RatSub(balance, <<currentBet', 1>>)]_vars

\* C20: in an Active round no revealed tile is a hazard, safeReveals counts
\* the revealed tiles and is at most 25 - |hazard set|, and the multiplier
\* the program computes for the round is finite.
C20_RevealedConsistent ==
    roundActive =>
        /\ revealed \cap minesSet = {}
        /\ safeReveals = Cardinality(revealed)
        /\ safeReveals <= BoardSize - Cardinality(minesSet)
        /\ IsFinite(payoutMultiplier(safeReveals, minesCount, houseEdgePct))

====
